---- MODULE Spec2Model ----
(***************************************************************************)
(* Educational RSA engine of CipherChatConnect (client/src/lib/rsa.ts) and *)
(* the RSAEncryption component that drives it, the WebSocketClient of the  *)
(* chat page and the WebSocketManager of the server (server/websocket.ts). *)
(*                                                                         *)
(* Numbers are JavaScript numbers.  Every value the model computes stays   *)
(* far below 2^53, where JavaScript arithmetic on integers is exact, so    *)
(* the operators below compute the exact integer results.  Strings are     *)
(* sequences of UTF-16 code units (0..65535).                              *)
(***************************************************************************)
EXTENDS Integers, Sequences, FiniteSets, TLC

VARIABLES pc, call, ret, argP, argQ, keyPair, message, ciphertext, plaintext,
          steps,
          socks, ws, reconnectAttempts, timers, delayLog, notified,
          readyState, clients, client, rooms, pending, sent, saved,
          locals

\* the state of a WebSocketClient instance and of the sockets and timers it
\* created
clientVars == <<socks, ws, reconnectAttempts, timers, delayLog, notified>>

\* the arguments, results and traces held by a caller of the RSA engine
engineVars == <<pc, call, ret, argP, argQ, keyPair, message, ciphertext,
                plaintext, steps>>

\* the state of a WebSocketManager: the sockets accepted by the server, its
\* clients and rooms maps, the ConnectedClient objects, the pending
\* storage.createChatMessage calls, and what the last handler sent and saved
serverVars == <<readyState, clients, client, rooms, pending, sent, saved>>

vars == <<engineVars, clientVars, serverVars, locals>>

(***************************************************************************)
(* Bounds of the model.                                                    *)
(***************************************************************************)
\* isPrime is applied to every n in 0..MaxN
MaxN == 130
\* arguments of gcd, modInverse and modPow range over 0..MaxArg
MaxArg == 12
\* candidate primes handed to generateRSAKeyPair range over 0..MaxP
MaxP == 13
\* plaintexts and supplied ciphertexts have at most MaxLen elements
MaxLen == 2
\* the encrypted-message text handed to handleDecrypt has at most
\* MaxInputLen characters
MaxInputLen == 3
\* a WebSocketClient creates at most MaxSockets sockets
MaxSockets == 7
\* a WebSocketManager accepts at most MaxClients sockets
MaxClients == 2
\* at most MaxPending storage.createChatMessage calls are pending at a time
MaxPending == 1

\* primes whose products exceed every surrogate code unit used
\* (239 * 241 = 57599) and the largest code unit (239 * 277 = 66203)
LargePrimes == {239, 241, 277}
\* code units a plaintext is made of: three BMP characters, one high
\* surrogate (0xD83D) and one low surrogate (0xDE00)
Codes == {2, 5, 72, 55357, 56832}
\* integers a caller may supply as ciphertext elements; 23991 is 65536^5 mod
\* 66203, the encryption of 65536 under the key pair of 239 and 277
SuppliedElems == {-3, 0, 2, 7, 23991}
\* characters of the encrypted-message text
InputChars == {" ", "-", "1", "7", "a"}

\* the absence value (null / NaN) and a present value
Null == <<>>
Some(x) == <<x>>

(***************************************************************************)
(* JavaScript arithmetic.                                                  *)
(***************************************************************************)
Abs(x) == IF x < 0 THEN -x ELSE x

\* x % m of JavaScript for m > 0: the remainder takes the sign of x
Rem(x, m) == IF x >= 0 THEN x % m ELSE -((-x) % m)

\* (x * y) % m of JavaScript for m > 0, computed without leaving the range
\* of the model checker's integers (|x|, |y|, m < 2^18)
MulRem(x, y, m) ==
    LET a == Abs(x)
        b == Abs(y)
        mag == ((((a * (b \div 256)) % m) * 256) + a * (b % 256)) % m
    IN  IF (x < 0) # (y < 0) THEN -mag ELSE mag

(***************************************************************************)
(* Number theory primitives.                                               *)
(***************************************************************************)
RECURSIVE isPrimeLoop(_, _)
\* for (let i = 3; i <= Math.sqrt(n); i += 2) if (n % i === 0) return false
isPrimeLoop(n, i) ==
    IF i * i <= n
    THEN IF Rem(n, i) = 0 THEN FALSE ELSE isPrimeLoop(n, i + 2)
    ELSE TRUE

isPrimeNoTwo(n) ==
    IF n < 2 THEN FALSE
    ELSE IF Rem(n, 2) = 0 THEN FALSE
    ELSE isPrimeLoop(n, 3)

isPrime(n) ==
    IF n < 2 THEN FALSE
    ELSE IF n = 2 THEN TRUE
    ELSE IF Rem(n, 2) = 0 THEN FALSE
    ELSE isPrimeLoop(n, 3)

RECURSIVE gcd(_, _)
gcdStopAtOne(a, b) == IF b > 1 THEN gcd(b, Rem(a, b)) ELSE a

gcd(a, b) == IF b # 0 THEN gcd(b, Rem(a, b)) ELSE a

\* the first x of 1, 2, .., m-1 with (a * x) % m === 1, or null
modInverseShort(a, m) ==
    LET hits == {x \in 1..(m - 2) : Rem(a * x, m) = 1}
    IN  IF hits = {} THEN Null
        ELSE Some(CHOOSE x \in hits : \A y \in hits : x <= y)

modInverseFromTwo(a, m) ==
    LET hits == {x \in 2..(m - 1) : Rem(a * x, m) = 1}
    IN  IF hits = {} THEN Null
        ELSE Some(CHOOSE x \in hits : \A y \in hits : x <= y)

modInverse(a, m) ==
    LET hits == {x \in 1..(m - 1) : Rem(a * x, m) = 1}
    IN  IF hits = {} THEN Null
        ELSE Some(CHOOSE x \in hits : \A y \in hits : x <= y)

RECURSIVE modPowLoop(_, _, _, _)
modPowLoopSquareFirst(result, base, exp, mod) ==
    IF exp > 0
    THEN modPowLoop(IF exp % 2 = 1
                    THEN MulRem(result, MulRem(base, base, mod), mod)
                    ELSE result,
                    MulRem(base, base, mod), exp \div 2, mod)
    ELSE result

modPowLoop(result, base, exp, mod) ==
    IF exp > 0
    THEN modPowLoop(IF exp % 2 = 1 THEN MulRem(result, base, mod) ELSE result,
                    MulRem(base, base, mod), exp \div 2, mod)
    ELSE result

modPow(base, exp, mod) == modPowLoop(1, Rem(base, mod), exp, mod)

(***************************************************************************)
(* SpecPrim: one call of a primitive.  Init draws the call, the action of  *)
(* the called function returns its result.                                 *)
(***************************************************************************)
PrimCalls ==
    {<<"isPrime", n>> : n \in 0..MaxN}
    \cup {<<"gcd", a, b>> : a \in 0..MaxArg, b \in 0..MaxArg}
    \cup {<<"modInverse", a, m>> : a \in 0..MaxArg, m \in 0..MaxArg}
    \cup {<<"modPow", b, e, m>> : b \in 0..MaxArg, e \in 0..MaxArg, m \in 1..MaxArg}

\* no WebSocketClient has been constructed
NoClient ==
    /\ socks = <<>> /\ ws = 0 /\ reconnectAttempts = 0
    /\ timers = 0 /\ delayLog = <<>> /\ notified = <<>>

\* no call of the RSA engine has been made
EngineIdle ==
    /\ argP = 0 /\ argQ = 0 /\ keyPair = Null
    /\ message = <<>> /\ ciphertext = <<>> /\ plaintext = <<>>
    /\ steps = Null

\* no WebSocketManager has been constructed
NoServer ==
    /\ readyState = <<>> /\ clients = {} /\ client = <<>> /\ rooms = <<>>
    /\ pending = {} /\ sent = {} /\ saved = Null

\* no function of the engine is being stepped through
NoLocals == locals = Null

Idle == EngineIdle /\ NoClient /\ NoServer /\ NoLocals

InitPrim ==
    /\ pc = "called"
    /\ call \in PrimCalls
    /\ ret = Null
    /\ Idle

Return(v) ==
    /\ pc' = "returned"
    /\ ret' = v
    /\ UNCHANGED <<call, argP, argQ, keyPair, message, ciphertext, plaintext,
                   steps, clientVars,
                   serverVars, locals>>

RunIsPrime ==
    /\ pc = "called" /\ call[1] = "isPrime"
    /\ Return(isPrime(call[2]))

RunGcd ==
    /\ pc = "called" /\ call[1] = "gcd"
    /\ Return(gcd(call[2], call[3]))

RunModInverse ==
    /\ pc = "called" /\ call[1] = "modInverse"
    /\ Return(modInverse(call[2], call[3]))

RunModPow ==
    /\ pc = "called" /\ call[1] = "modPow"
    /\ Return(modPow(call[2], call[3], call[4]))

NextPrim == RunIsPrime \/ RunGcd \/ RunModInverse \/ RunModPow

SpecPrim == InitPrim /\ [][NextPrim]_vars

(***************************************************************************)
(* Properties of the primitives (checked under SpecPrim).                  *)
(***************************************************************************)
Returned(f) == pc = "returned" /\ call[1] = f

\* n is prime: n >= 2 and no d with 1 < d < n divides n
IsPrimeMath(n) == n >= 2 /\ \A d \in 2..(n - 1) : n % d # 0

\* a and m have no common divisor greater than 1
Coprime(a, m) == \A d \in 2..m : ~(a % d = 0 /\ m % d = 0)

\* C8: for base >= 0, exp >= 0 and mod > 0, modPow(base, exp, mod) lies in
\* [0, mod), and modPow(base, 0, mod) equals 1 mod mod.
C8_ModPowRange ==
    Returned("modPow") =>
        /\ 0 <= ret /\ ret < call[4]
        /\ call[3] = 0 => ret = 1 % call[4]

\* C9: for a >= 1 and m > 1 coprime, modInverse(a, m) is the unique x with
\* 0 < x < m and (a * x) mod m = 1; for m > 1 and a, m not coprime it is null.
C9_ModInverse ==
    (Returned("modInverse") /\ call[3] > 1) =>
        LET a == call[2]
            m == call[3]
        IN  /\ (a >= 1 /\ Coprime(a, m)) =>
                /\ Len(ret) = 1
                /\ 0 < ret[1] /\ ret[1] < m
                /\ (a * ret[1]) % m = 1
                /\ \A y \in 1..(m - 1) : (a * y) % m = 1 => y = ret[1]
            /\ ~Coprime(a, m) => ret = Null

C9_Witness ==
    /\ Returned("modInverse")
    /\ call = <<"modInverse", 11, 12>>
    /\ ret = Some(11)

\* C10: isPrime(n) agrees with the mathematical definition of primality for
\* every n from 0 up to the bound; isPrime(0) = isPrime(1) = FALSE and
\* isPrime(2) = TRUE.
C10_IsPrimeMatchesDefinition ==
    Returned("isPrime") =>
        /\ ret = IsPrimeMath(call[2])
        /\ call[2] \in {0, 1} => ret = FALSE
        /\ call[2] = 2 => ret = TRUE

C10_Witness ==
    /\ Returned("isPrime")
    /\ call[2] = 2
    /\ ret = TRUE

\* d divides x (0 divides only 0)
Divides(d, x) == IF d = 0 THEN x = 0 ELSE x % d = 0

\* C15: for non-negative a and b, gcd(a, b) is the non-negative greatest
\* common divisor: it divides both, every common divisor divides it, and
\* gcd(a, 0) = a.
C15_GcdIsGreatestCommonDivisor ==
    Returned("gcd") =>
        LET a == call[2]
            b == call[3]
        IN  /\ ret >= 0
            /\ Divides(ret, a) /\ Divides(ret, b)
            /\ \A d \in 0..(a + b + 1) :
                (Divides(d, a) /\ Divides(d, b)) => Divides(d, ret)
            /\ b = 0 => ret = a

C15_Witness ==
    /\ Returned("gcd")
    /\ call = <<"gcd", 12, 8>>
    /\ ret = 4

RECURSIVE PowModRef(_, _, _)
\* base^exp mod m by repeated multiplication
PowModRef(base, exp, m) ==
    IF exp = 0 THEN 1 % m ELSE (base * PowModRef(base, exp - 1, m)) % m

\* C19: for base >= 0, exp >= 0 and mod >= 2, modPow(base, exp, mod) is
\* (base^exp) mod mod as defined by repeated multiplication, including
\* exp = 0 (result 1) and base >= mod.
C19_ModPowIsPower ==
    (Returned("modPow") /\ call[4] >= 2) =>
        /\ ret = PowModRef(call[2], call[3], call[4])
        /\ call[3] = 0 => ret = 1

C19_Witness ==
    /\ Returned("modPow")
    /\ call = <<"modPow", 12, 5, 7>>
    /\ ret = 3

(***************************************************************************)
(* Key derivation.                                                         *)
(***************************************************************************)
Error(msg) == [ok |-> FALSE, error |-> msg]

RECURSIVE findE(_, _)
findEStepFour(e, phi) == IF gcd(e, phi) # 1 THEN findE(e + 4, phi) ELSE e

\* let e = 3; while (gcd(e, phi) !== 1) e += 2
findE(e, phi) == IF gcd(e, phi) # 1 THEN findE(e + 2, phi) ELSE e

keyMaterialInvN(p, q) ==
    LET n == p * q
        phi == (p - 1) * (q - 1)
        e == findE(3, phi)
        d == modInverse(e, n)
    IN  IF d = Null \/ d = Some(0)
        THEN Error("Could not generate valid private key")
        ELSE [ok |-> TRUE,
              publicKey |-> [e |-> e, n |-> n],
              privateKey |-> [d |-> d[1], n |-> n],
              p |-> p, q |-> q, phi |-> phi]

keyMaterialPhiQ(p, q) ==
    LET n == p * q
        phi == (p - 1) * q
        e == findE(3, phi)
        d == modInverse(e, phi)
    IN  IF d = Null \/ d = Some(0)
        THEN Error("Could not generate valid private key")
        ELSE [ok |-> TRUE,
              publicKey |-> [e |-> e, n |-> n],
              privateKey |-> [d |-> d[1], n |-> n],
              p |-> p, q |-> q, phi |-> phi]

\* generateRSAKeyPair once both inputs are validated
keyMaterial(p, q) ==
    LET n == p * q
        phi == (p - 1) * (q - 1)
        e == findE(3, phi)
        d == modInverse(e, phi)
    IN  IF d = Null \/ d = Some(0)
        THEN Error("Could not generate valid private key")
        ELSE [ok |-> TRUE,
              publicKey |-> [e |-> e, n |-> n],
              privateKey |-> [d |-> d[1], n |-> n],
              p |-> p, q |-> q, phi |-> phi]

generateRSAKeyPairBothComposite(p, q) ==
    IF ~isPrime(p) /\ ~isPrime(q)
    THEN Error("Both p and q must be prime numbers")
    ELSE IF p = q
    THEN Error("p and q must be different prime numbers")
    ELSE keyMaterial(p, q)

generateRSAKeyPairNoDistinctCheck(p, q) ==
    IF ~isPrime(p) \/ ~isPrime(q)
    THEN Error("Both p and q must be prime numbers")
    ELSE keyMaterial(p, q)

generateRSAKeyPairDistinctFirst(p, q) ==
    IF p = q
    THEN Error("p and q must be different prime numbers")
    ELSE IF ~isPrime(p) \/ ~isPrime(q)
    THEN Error("Both p and q must be prime numbers")
    ELSE keyMaterial(p, q)

generateRSAKeyPair(p, q) ==
    IF ~isPrime(p) \/ ~isPrime(q)
    THEN Error("Both p and q must be prime numbers")
    ELSE IF p = q
    THEN Error("p and q must be different prime numbers")
    ELSE keyMaterial(p, q)

(***************************************************************************)
(* Message codec.                                                          *)
(***************************************************************************)
IsHighSurrogate(u) == 55296 <= u /\ u <= 56319
IsLowSurrogate(u) == 56320 <= u /\ u <= 57343

RECURSIVE ArrayFrom(_)
ArrayFromUnits(s) == [i \in 1..Len(s) |-> <<s[i]>>]

\* Array.from(message): the string iterator yields one element per code
\* point, so a high surrogate followed by a low surrogate is one element
ArrayFrom(s) ==
    IF s = <<>> THEN <<>>
    ELSE IF Len(s) >= 2 /\ IsHighSurrogate(s[1]) /\ IsLowSurrogate(s[2])
    THEN <<SubSeq(s, 1, 2)>> \o ArrayFrom(SubSeq(s, 3, Len(s)))
    ELSE <<SubSeq(s, 1, 1)>> \o ArrayFrom(Tail(s))

\* char.charCodeAt(0): the first code unit of the element
charCodeAt0(char) == char[1]

\* String.fromCharCode(x): the code unit x modulo 2^16
fromCharCode(x) == x % 65536

encryptMessageSaturating(msg, publicKey) ==
    LET chars == ArrayFrom(msg)
    IN  [i \in 1..Len(chars) |->
            modPow(IF charCodeAt0(chars[i]) >= publicKey.n
                   THEN publicKey.n - 1
                   ELSE charCodeAt0(chars[i]),
                   publicKey.e, publicKey.n)]

encryptMessage(msg, publicKey) ==
    LET chars == ArrayFrom(msg)
    IN  [i \in 1..Len(chars) |->
            modPow(charCodeAt0(chars[i]), publicKey.e, publicKey.n)]

decryptMessage(ct, privateKey) ==
    [i \in 1..Len(ct) |->
        fromCharCode(modPow(ct[i], privateKey.d, privateKey.n))]

(***************************************************************************)
(* Step traces.  A formula string is the tuple of the values and the       *)
(* literal pieces its template joins.                                      *)
(***************************************************************************)
getKeyGenerationSteps(p, q, keys) ==
    [nCalculation |-> <<p, " x ", q, " = ", keys.publicKey.n>>,
     phiCalculation |-> <<"(", p, "-1) x (", q, "-1) = ", keys.phi>>,
     eCalculation |-> <<keys.publicKey.e, " (coprime with phi(n))">>,
     dCalculation |-> <<keys.publicKey.e, "^-1 mod ", keys.phi, " = ",
                        keys.privateKey.d>>]

getEncryptionSteps(msg, publicKey) ==
    LET chars == ArrayFrom(msg)
    IN  [i \in 1..Len(chars) |->
            LET ascii == charCodeAt0(chars[i])
            IN  [character |-> chars[i],
                 ascii |-> ascii,
                 calculation |-> <<ascii, "^", publicKey.e, " mod ", publicKey.n>>,
                 result |-> modPow(ascii, publicKey.e, publicKey.n)]]

getDecryptionSteps(ct, privateKey) ==
    [i \in 1..Len(ct) |->
        LET result == modPow(ct[i], privateKey.d, privateKey.n)
        IN  [character |-> <<fromCharCode(result)>>,
             ascii |-> result,
             calculation |-> <<ct[i], "^", privateKey.d, " mod ", privateKey.n>>,
             result |-> result]]

(***************************************************************************)
(* Spec: a caller derives a key pair from two numbers and then encrypts    *)
(* texts and decrypts the resulting cipher sequences with it.              *)
(***************************************************************************)
RECURSIVE SeqsUpTo(_, _)
SeqsUpTo(S, k) ==
    IF k = 0 THEN {<<>>}
    ELSE LET shorter == SeqsUpTo(S, k - 1)
         IN  shorter \cup {Append(s, x) : s \in shorter, x \in S}

KeyInputs == (0..MaxP) \cup LargePrimes
Texts == SeqsUpTo(Codes, MaxLen)

Init ==
    /\ pc = "start"
    /\ argP \in KeyInputs
    /\ argQ \in KeyInputs
    /\ keyPair = Null
    /\ call = <<"none">>
    /\ ret = Null
    /\ message = <<>> /\ ciphertext = <<>> /\ plaintext = <<>>
    /\ steps = Null
    /\ NoClient /\ NoServer /\ NoLocals

GenerateKeys ==
    /\ pc = "start"
    /\ LET keys == generateRSAKeyPair(argP, argQ)
       IN  /\ keyPair' = keys
           /\ pc' = IF keys.ok THEN "keyed" ELSE "failed"
           /\ steps' = IF keys.ok
                        THEN getKeyGenerationSteps(argP, argQ, keys)
                        ELSE Null
    /\ call' = <<"generateRSAKeyPair", argP, argQ>>
    /\ UNCHANGED <<ret, argP, argQ, message, ciphertext, plaintext, clientVars,
                   serverVars, locals>>

\* An encryption overwrites message, ciphertext, steps and plaintext, so a
\* later encryption in the same session reaches no state the first one does
\* not; the session is followed through its first encryption.
CallEncrypt ==
    /\ pc = "keyed"
    /\ call[1] = "generateRSAKeyPair"
    /\ \E text \in Texts :
        /\ message' = text
        /\ ciphertext' = encryptMessage(text, keyPair.publicKey)
        /\ steps' = getEncryptionSteps(text, keyPair.publicKey)
    /\ plaintext' = <<>>
    /\ call' = <<"encryptMessage">>
    /\ UNCHANGED <<pc, ret, argP, argQ, keyPair, clientVars,
                   serverVars, locals>>

CallDecrypt ==
    /\ pc = "keyed"
    /\ call[1] = "encryptMessage"
    /\ plaintext' = decryptMessage(ciphertext, keyPair.privateKey)
    /\ steps' = getDecryptionSteps(ciphertext, keyPair.privateKey)
    /\ call' = <<"decryptMessage">>
    /\ UNCHANGED <<pc, ret, argP, argQ, keyPair, message, ciphertext, clientVars,
                   serverVars, locals>>

Next == GenerateKeys \/ CallEncrypt \/ CallDecrypt

Spec == Init /\ [][Next]_vars

(***************************************************************************)
(* Properties of key derivation and of the codec (checked under Spec).     *)
(***************************************************************************)
\* C1: for every key pair generateRSAKeyPair returns and every text whose
\* character codes are all strictly less than n, decrypting the encryption
\* of the text gives the text back exactly.
C1_RoundTrip ==
    (/\ pc = "keyed"
     /\ call[1] = "decryptMessage"
     /\ \A i \in 1..Len(message) : message[i] < keyPair.publicKey.n)
        => plaintext = message

\* C2: every returned key pair has 0 < e < phi and gcd(e, phi) = 1.
C2_PublicExponent ==
    pc = "keyed" =>
        /\ 0 < keyPair.publicKey.e
        /\ keyPair.publicKey.e < keyPair.phi
        /\ Coprime(keyPair.publicKey.e, keyPair.phi)

\* C3: every returned key pair has 0 < d < phi and (d * e) mod phi = 1.
C3_PrivateExponent ==
    pc = "keyed" =>
        /\ 0 < keyPair.privateKey.d
        /\ keyPair.privateKey.d < keyPair.phi
        /\ (keyPair.privateKey.d * keyPair.publicKey.e) % keyPair.phi = 1

C3_Witness ==
    /\ pc = "keyed"
    /\ argP = 11 /\ argQ = 13
    /\ keyPair.phi = 120
    /\ keyPair.privateKey.d = 103

\* C4: generateRSAKeyPair(p, q) fails with 'Both p and q must be prime
\* numbers' and returns no key material whenever isPrime(p) or isPrime(q) is
\* false.
C4_InvalidPrime ==
    (pc # "start" /\ (~isPrime(argP) \/ ~isPrime(argQ)))
        => keyPair = Error("Both p and q must be prime numbers")

C4_Witness ==
    /\ pc = "failed"
    /\ argP = 5 /\ argQ = 9
    /\ keyPair = Error("Both p and q must be prime numbers")

\* C5: generateRSAKeyPair(p, q) fails with 'p and q must be different prime
\* numbers' and returns no key material whenever p and q are prime and equal.
C5_DuplicatePrime ==
    (pc # "start" /\ isPrime(argP) /\ isPrime(argQ) /\ argP = argQ)
        => keyPair = Error("p and q must be different prime numbers")

C5_Witness ==
    /\ pc = "failed"
    /\ argP = 7 /\ argQ = 7
    /\ keyPair = Error("p and q must be different prime numbers")

\* C6: when no odd e with 3 <= e < phi has gcd(e, phi) = 1, key derivation
\* fails with NoValidExponent and returns no key material.
C6_NoValidExponent ==
    (/\ pc # "start"
     /\ isPrime(argP) /\ isPrime(argQ) /\ argP # argQ
     /\ LET phi == (argP - 1) * (argQ - 1)
        IN  ~\E e \in 3..(phi - 1) : e % 2 = 1 /\ Coprime(e, phi))
        => (~keyPair.ok /\ keyPair.error = "NoValidExponent")

RECURSIVE CodePointsOf(_)
\* the Unicode code points a sequence of UTF-16 code units encodes
CodePointsOf(s) ==
    IF s = <<>> THEN <<>>
    ELSE IF Len(s) >= 2 /\ s[1] \in 55296..56319 /\ s[2] \in 56320..57343
    THEN <<65536 + (s[1] - 55296) * 1024 + (s[2] - 56320)>>
             \o CodePointsOf(SubSeq(s, 3, Len(s)))
    ELSE <<s[1]>> \o CodePointsOf(Tail(s))

\* C11: encryptMessage(text, (e, n)) has exactly one integer per character of
\* the text, in the order of the text, the i-th being
\* modPow(code(text[i]), e, n) and lying in [0, n).  The characters of the
\* text are read either as its code units or as its code points.
C11_OneIntegerPerCharacter ==
    (pc = "keyed" /\ call[1] = "encryptMessage") =>
        LET e == keyPair.publicKey.e
            n == keyPair.publicKey.n
            OnePer(codes) ==
                /\ Len(ciphertext) = Len(codes)
                /\ \A i \in 1..Len(codes) :
                    /\ ciphertext[i] = modPow(codes[i], e, n)
                    /\ 0 <= ciphertext[i] /\ ciphertext[i] < n
        IN  OnePer(message) \/ OnePer(CodePointsOf(message))

\* the number of characters (code points) of a string of code units
CountCharacters(s) ==
    Len(s) - Cardinality({i \in 1..(Len(s) - 1) :
                            s[i] \in 55296..56319 /\ s[i + 1] \in 56320..57343})

RECURSIVE JoinCharacters(_)
\* the character fields of a trace, joined in trace order
JoinCharacters(trace) ==
    IF trace = <<>> THEN <<>>
    ELSE trace[1].character \o JoinCharacters(Tail(trace))

C14_KeyPairFields ==
    pc = "keyed" =>
        /\ keyPair.publicKey.n = argP * argQ
        /\ keyPair.phi = (argP - 1) * (argQ - 1)
        /\ keyPair.p = argP /\ keyPair.q = argQ
        /\ keyPair.publicKey.n = keyPair.privateKey.n

C14_Witness ==
    /\ pc = "keyed"
    /\ argP = 11 /\ argQ = 13
    /\ keyPair.publicKey.n = 143
    /\ keyPair.privateKey.n = 143
    /\ keyPair.phi = 120

\* C18: the public exponent is the smallest odd integer e >= 3 with
\* gcd(e, phi) = 1; for p = 11 and q = 13, phi = 120, e = 7 and d = 103.
C18_SmallestOddExponent ==
    pc = "keyed" =>
        LET e == keyPair.publicKey.e
            phi == keyPair.phi
        IN  /\ e >= 3 /\ e % 2 = 1
            /\ Coprime(e, phi)
            /\ \A f \in 3..(e - 1) : f % 2 = 1 => ~Coprime(f, phi)
            /\ (argP = 11 /\ argQ = 13) =>
                (phi = 120 /\ e = 7 /\ keyPair.privateKey.d = 103)

C18_Witness ==
    /\ pc = "keyed"
    /\ argP = 11 /\ argQ = 13
    /\ keyPair.publicKey.e = 7

\* C20: for every pair of distinct primes generateRSAKeyPair returns a key
\* pair; it never fails with 'Could not generate valid private key'.
C20_KeyDerivationNeverFails ==
    (pc # "start" /\ isPrime(argP) /\ isPrime(argQ) /\ argP # argQ) =>
        /\ keyPair.ok
        /\ keyPair # Error("Could not generate valid private key")

C20_Witness ==
    /\ pc = "keyed"
    /\ argP = 2 /\ argQ = 3
    /\ keyPair.privateKey.d = 1

RECURSIVE FirstUnits(_)
\* for each character (code point) of a string of code units, its first
\* code unit
FirstUnits(s) ==
    IF s = <<>> THEN <<>>
    ELSE IF Len(s) >= 2 /\ s[1] \in 55296..56319 /\ s[2] \in 56320..57343
    THEN <<s[1]>> \o FirstUnits(SubSeq(s, 3, Len(s)))
    ELSE <<s[1]>> \o FirstUnits(Tail(s))

\* C21: encryptMessage never fails; for a character code c, also for c >= n,
\* it gives modPow(c mod n, e, n), the same integer as for the code c mod n,
\* and decrypting that integer with the matching private key gives the
\* character with code c mod n.
C21_OutOfRangeWraps ==
    LET e == keyPair.publicKey.e
        n == keyPair.publicKey.n
        codes == FirstUnits(message)
    IN  /\ (pc = "keyed" /\ call[1] \in {"encryptMessage", "decryptMessage"}) =>
            /\ Len(ciphertext) = Len(codes)
            /\ \A i \in 1..Len(codes) :
                /\ ciphertext[i] = modPow(codes[i] % n, e, n)
                /\ ciphertext[i] =
                       encryptMessage(<<codes[i] % n>>, keyPair.publicKey)[1]
        /\ (pc = "keyed" /\ call[1] = "decryptMessage") =>
            plaintext = [i \in 1..Len(codes) |-> codes[i] % n]

C21_Witness ==
    /\ pc = "keyed" /\ call[1] = "decryptMessage"
    /\ argP = 2 /\ argQ = 3
    /\ message = <<72, 5>>
    /\ plaintext = <<0, 5>>

\* C30: primality is checked before distinctness: when p = q and the common
\* value is not prime the failure is 'Both p and q must be prime numbers',
\* and 'p and q must be different prime numbers' is reported only when both
\* inputs are prime.
C30_ValidationOrder ==
    pc # "start" =>
        /\ (argP = argQ /\ ~IsPrimeMath(argP)) =>
                keyPair = Error("Both p and q must be prime numbers")
        /\ keyPair = Error("p and q must be different prime numbers") =>
                (IsPrimeMath(argP) /\ IsPrimeMath(argQ))

C30_Witness ==
    /\ pc = "failed"
    /\ argP = 4 /\ argQ = 4
    /\ keyPair = Error("Both p and q must be prime numbers")

(***************************************************************************)
(* The encrypted-message text of the RSAEncryption component.              *)
(***************************************************************************)
IsDigit(c) == c \in {"0", "1", "2", "3", "4", "5", "6", "7", "8", "9"}

DigitVal(c) ==
    CASE c = "0" -> 0 [] c = "1" -> 1 [] c = "2" -> 2 [] c = "3" -> 3
      [] c = "4" -> 4 [] c = "5" -> 5 [] c = "6" -> 6 [] c = "7" -> 7
      [] c = "8" -> 8 [] c = "9" -> 9

RECURSIVE TrimStart(_)
TrimStart(s) ==
    IF s # <<>> /\ s[1] = " " THEN TrimStart(Tail(s)) ELSE s

RECURSIVE TrimEnd(_)
TrimEnd(s) ==
    IF s # <<>> /\ s[Len(s)] = " " THEN TrimEnd(SubSeq(s, 1, Len(s) - 1)) ELSE s

\* s.trim()
Trim(s) == TrimEnd(TrimStart(s))

RECURSIVE Split(_)
\* s.split(' ')
Split(s) ==
    IF \E i \in 1..Len(s) : s[i] = " "
    THEN LET i == CHOOSE i \in 1..Len(s) :
                      s[i] = " " /\ \A j \in 1..(i - 1) : s[j] # " "
         IN  <<SubSeq(s, 1, i - 1)>> \o Split(SubSeq(s, i + 1, Len(s)))
    ELSE <<s>>

RECURSIVE LeadingDigits(_, _)
\* the value of the longest prefix of s made of decimal digits, continuing acc
LeadingDigits(s, acc) ==
    IF s # <<>> /\ IsDigit(s[1])
    THEN LeadingDigits(Tail(s), 10 * acc + DigitVal(s[1]))
    ELSE acc

\* parseInt(s): optional leading white space and sign, then the longest
\* prefix of decimal digits; NaN when there is no digit
parseInt(s) ==
    LET t == TrimStart(s)
        signed == t # <<>> /\ t[1] \in {"-", "+"}
        body == IF signed THEN Tail(t) ELSE t
    IN  IF body = <<>> \/ ~IsDigit(body[1]) THEN Null
        ELSE IF signed /\ t[1] = "-" THEN Some(-LeadingDigits(body, 0))
        ELSE Some(LeadingDigits(body, 0))

Toast(title, description) == [title |-> title, description |-> description]

(***************************************************************************)
(* SpecDecrypt: a caller derives a key pair and then decrypts cipher       *)
(* sequences it supplies itself, directly through decryptMessage or as     *)
(* text through the handleDecrypt handler of RSAEncryption.                *)
(***************************************************************************)
SuppliedCiphertexts == SeqsUpTo(SuppliedElems, MaxLen)
EncryptedTexts == SeqsUpTo(InputChars, MaxInputLen)

\* a session makes one decryption request with its key pair
CallDecryptSupplied ==
    /\ pc = "keyed"
    /\ call[1] = "generateRSAKeyPair"
    /\ \E ct \in SuppliedCiphertexts :
        /\ call' = <<"decryptMessage", ct>>
        /\ ret' = Some(decryptMessage(ct, keyPair.privateKey))
    /\ UNCHANGED <<pc, argP, argQ, keyPair, message, ciphertext, plaintext,
                   steps, clientVars,
                   serverVars, locals>>

\* the trace of the ciphertext just decrypted, as handleDecrypt asks for it
\* after decryptMessage
CallDecryptionSteps ==
    /\ pc = "keyed"
    /\ call[1] = "decryptMessage" /\ Len(call) = 2
    /\ steps' = getDecryptionSteps(call[2], keyPair.privateKey)
    /\ call' = <<"getDecryptionSteps", call[2]>>
    /\ UNCHANGED <<pc, ret, argP, argQ, keyPair, message, ciphertext,
                   plaintext, clientVars, serverVars, locals>>

handleDecrypt ==
    \/ /\ pc # "keyed"
       /\ call' = <<"handleDecrypt", <<>>>>
       /\ ret' = Toast("No Keys Available", "Please generate RSA keys first.")
       /\ UNCHANGED <<plaintext, steps>>
    \/ /\ pc = "keyed"
       /\ \E encryptedMessage \in EncryptedTexts :
            /\ call' = <<"handleDecrypt", encryptedMessage>>
            /\ IF Trim(encryptedMessage) = <<>>
               THEN /\ ret' = Toast("No Encrypted Message",
                                    "Please encrypt a message first.")
                    /\ UNCHANGED <<plaintext, steps>>
               ELSE LET tokens == Split(encryptedMessage)
                        parsed == [i \in 1..Len(tokens) |->
                                      parseInt(Trim(tokens[i]))]
                    IN  IF \E i \in 1..Len(parsed) : parsed[i] = Null
                        THEN /\ ret' = Toast("Decryption Error",
                                             "Invalid encrypted message format")
                             /\ UNCHANGED <<plaintext, steps>>
                        ELSE /\ plaintext' = decryptMessage(
                                    [i \in 1..Len(parsed) |-> parsed[i][1]],
                                    keyPair.privateKey)
                             /\ steps' = getDecryptionSteps(
                                    [i \in 1..Len(parsed) |-> parsed[i][1]],
                                    keyPair.privateKey)
                             /\ ret' = Toast("Message Decrypted",
                                    "Your message has been decrypted successfully.")

HandleDecrypt ==
    /\ call[1] \in {"none", "generateRSAKeyPair"}
    /\ handleDecrypt
    /\ UNCHANGED <<pc, argP, argQ, keyPair, message, ciphertext, clientVars,
                   serverVars, locals>>

NextDecrypt ==
    GenerateKeys \/ CallDecryptSupplied \/ CallDecryptionSteps \/ HandleDecrypt

SpecDecrypt == Init /\ [][NextDecrypt]_vars

(***************************************************************************)
(* Properties of decryption of supplied input (checked under SpecDecrypt). *)
(***************************************************************************)
\* a token is a well-formed non-negative integer: one or more decimal digits
WellFormedToken(tok) ==
    tok # <<>> /\ \A i \in 1..Len(tok) : IsDigit(tok[i])

\* C7: if any element of the ciphertext is not a well-formed non-negative
\* integer, decryption fails with the malformed-ciphertext error and returns
\* no plaintext.
C7_MalformedCiphertextRejected ==
    /\ (/\ pc = "keyed"
        /\ call[1] = "handleDecrypt"
        /\ Trim(call[2]) # <<>>
        /\ \E i \in 1..Len(Split(call[2])) : ~WellFormedToken(Split(call[2])[i]))
            => ret = Toast("Decryption Error", "Invalid encrypted message format")
    /\ (/\ call[1] = "decryptMessage"
        /\ Len(call) = 2
        /\ \E i \in 1..Len(call[2]) : call[2][i] < 0)
            => ret = Null

RECURSIVE Utf16Of(_)
\* the UTF-16 code units of the string whose characters have the given
\* code points
Utf16Of(cps) ==
    IF cps = <<>> THEN <<>>
    ELSE (IF cps[1] < 65536 THEN <<cps[1]>>
          ELSE <<55296 + ((cps[1] - 65536) \div 1024),
                 56320 + ((cps[1] - 65536) % 1024)>>)
         \o Utf16Of(Tail(cps))

\* C12: for any sequence of non-negative integers, decryptMessage returns a
\* string with one character per ciphertext element, in the same order, the
\* i-th character having the code modPow(ciphertext[i], d, n).  The code of a
\* character is read either as a code unit or as a code point.
C12_OneCharacterPerElement ==
    (/\ pc = "keyed"
     /\ call[1] = "decryptMessage"
     /\ Len(call) = 2
     /\ \A i \in 1..Len(call[2]) : call[2][i] >= 0)
        => LET ct == call[2]
               codes == [i \in 1..Len(ct) |->
                            modPow(ct[i], keyPair.privateKey.d, keyPair.privateKey.n)]
           IN  ret[1] = codes \/ ret[1] = Utf16Of(codes)

\* C28: the traces agree with the codec: the encryption trace has the length
\* of encryptMessage's result, its i-th result is the i-th cipher integer
\* and its i-th ascii is the code of the i-th character of the text; the
\* decryption trace of non-negative integers has one record per character
\* of decryptMessage's result, the i-th ascii being the code of the i-th
\* character.  The code of a character is read either as a code unit or as
\* a code point.
C28_TraceAgreesWithCodec ==
    /\ (pc = "keyed" /\ call[1] = "encryptMessage") =>
        /\ Len(steps) = Len(ciphertext)
        /\ \A i \in 1..Len(steps) :
            /\ steps[i].result = ciphertext[i]
            /\ steps[i].ascii = FirstUnits(message)[i]
    /\ (/\ pc = "keyed"
        /\ call[1] = "getDecryptionSteps"
        /\ \A i \in 1..Len(call[2]) : call[2][i] >= 0) =>
        LET codes == [i \in 1..Len(steps) |-> steps[i].ascii]
        IN  ret[1] = codes \/ ret[1] = Utf16Of(codes)

(***************************************************************************)
(* SpecClient: one WebSocketClient instance, the sockets it creates, the   *)
(* timers it sets and the events the browser delivers to it.               *)
(***************************************************************************)
maxReconnectAttempts == 5
reconnectInterval == 3000

reconnectOffByOne(before, timersNow) ==
    IF reconnectAttempts <= maxReconnectAttempts
    THEN /\ reconnectAttempts' = reconnectAttempts + 1
         /\ timers' = timersNow + 1
         /\ delayLog' = Append(delayLog, reconnectInterval)
         /\ notified' = before
    ELSE /\ notified' = Append(before, "Maximum reconnection attempts reached")
         /\ timers' = timersNow
         /\ UNCHANGED <<reconnectAttempts, delayLog>>

\* reconnect(), called by a handler that has already notified `before`,
\* with timersNow timers pending
reconnect(before, timersNow) ==
    IF reconnectAttempts < maxReconnectAttempts
    THEN /\ reconnectAttempts' = reconnectAttempts + 1
         /\ timers' = timersNow + 1
         /\ delayLog' = Append(delayLog, reconnectInterval)
         /\ notified' = before
    ELSE /\ notified' = Append(before, "Maximum reconnection attempts reached")
         /\ timers' = timersNow
         /\ UNCHANGED <<reconnectAttempts, delayLog>>

\* connect(): new WebSocket(wsUrl) either returns a socket in the CONNECTING
\* state or throws, and the catch block calls reconnect()
connect(timersNow) ==
    \/ /\ Len(socks) < MaxSockets
       /\ socks' = Append(socks, "connecting")
       /\ ws' = Len(socks) + 1
       /\ timers' = timersNow
       /\ notified' = <<>>
       /\ UNCHANGED <<reconnectAttempts, delayLog>>
    \/ /\ UNCHANGED <<socks, ws>>
       /\ reconnect(<<>>, timersNow)

\* the state after the constructor, which calls connect()
InitClient ==
    /\ pc = "client" /\ call = <<"none">> /\ ret = Null
    /\ EngineIdle /\ NoServer /\ NoLocals
    /\ \/ /\ socks = <<"connecting">> /\ ws = 1
          /\ reconnectAttempts = 0 /\ timers = 0 /\ delayLog = <<>>
          /\ notified = <<>>
       \/ /\ socks = <<>> /\ ws = 0
          /\ reconnectAttempts = 1 /\ timers = 1
          /\ delayLog = <<reconnectInterval>>
          /\ notified = <<>>

\* ws.onopen
SocketOpen ==
    /\ \E i \in 1..Len(socks) :
        /\ socks[i] = "connecting"
        /\ socks' = [socks EXCEPT ![i] = "open"]
    /\ reconnectAttempts' = 0
    /\ delayLog' = <<>>
    /\ notified' = <<"connected">>
    /\ UNCHANGED <<ws, timers, engineVars, serverVars, locals>>

\* ws.onerror
SocketError ==
    /\ \E i \in 1..Len(socks) : socks[i] \in {"connecting", "open", "closing"}
    /\ notified' = <<"Connection error">>
    /\ UNCHANGED <<socks, ws, reconnectAttempts, timers, delayLog, engineVars, serverVars, locals>>

\* ws.onclose
SocketClose ==
    /\ \E i \in 1..Len(socks) :
        /\ socks[i] \in {"connecting", "open", "closing"}
        /\ socks' = [socks EXCEPT ![i] = "closed"]
    /\ reconnect(<<"disconnected">>, timers)
    /\ UNCHANGED <<ws, engineVars, serverVars, locals>>

\* the callback of setTimeout(() => this.connect(), reconnectInterval)
TimerFires ==
    /\ timers > 0
    /\ connect(timers - 1)
    /\ UNCHANGED <<engineVars, serverVars, locals>>

\* disconnect()
Disconnect ==
    /\ IF ws # 0
       THEN /\ socks' = [socks EXCEPT ![ws] =
                            IF @ \in {"connecting", "open"} THEN "closing" ELSE @]
            /\ ws' = 0
       ELSE UNCHANGED <<socks, ws>>
    /\ UNCHANGED <<reconnectAttempts, timers, delayLog, notified, engineVars, serverVars, locals>>

NextClient ==
    SocketOpen \/ SocketError \/ SocketClose \/ TimerFires \/ Disconnect

SpecClient == InitClient /\ [][NextClient]_vars

(***************************************************************************)
(* Properties of the WebSocket client (checked under SpecClient).          *)
(***************************************************************************)
\* C17: the client reconnects with exponential backoff: among the
\* consecutive reconnection attempts made since a connection last opened,
\* the delay before each attempt is larger than the delay before the
\* previous one.
C17_ExponentialBackoff ==
    \A k \in 2..Len(delayLog) : delayLog[k] > delayLog[k - 1]

\* C25: the close event of a socket that disconnect() closed does not
\* schedule a reconnection: it sets no timer and counts no attempt, so the
\* client opens no further connection.
C25_DisconnectStaysDisconnected ==
    [][(\E i \in 1..Len(socks) : socks[i] = "closing" /\ socks'[i] = "closed")
          => (timers' = timers /\ reconnectAttempts' = reconnectAttempts)]_vars

\* a step in which reconnect() runs: a socket closes, or a timer fires and
\* new WebSocket throws
ReconnectCalled ==
    \/ \E i \in 1..Len(socks) : socks[i] # "closed" /\ socks'[i] = "closed"
    \/ timers' < timers /\ socks' = socks

\* C27: reconnectAttempts stays in [0, maxReconnectAttempts]; it is 0 after
\* every open event; and once it is maxReconnectAttempts no step sets a
\* further timer, and every call of reconnect() notifies the error handlers
\* with 'Maximum reconnection attempts reached'.
C27_ReconnectAttemptsBounded ==
    /\ [](reconnectAttempts \in 0..5)
    /\ [][(\E i \in 1..Len(socks) : socks[i] # "open" /\ socks'[i] = "open")
            => reconnectAttempts' = 0]_vars
    /\ [][reconnectAttempts = 5 =>
            /\ timers' <= timers
            /\ ReconnectCalled =>
                  /\ reconnectAttempts' = 5
                  /\ \E k \in 1..Len(notified') :
                        notified'[k] = "Maximum reconnection attempts reached"]_vars

C27_Witness ==
    /\ reconnectAttempts = 5
    /\ timers = 0
    /\ \E k \in 1..Len(notified) :
          notified[k] = "Maximum reconnection attempts reached"

(***************************************************************************)
(* SpecServer: one WebSocketManager (server/websocket.ts), the sockets it  *)
(* accepted, the messages and events delivered to it and the               *)
(* storage.createChatMessage calls it awaits.  A socket is the index of    *)
(* its entry in readyState; a handler runs to its end or to its await      *)
(* without interleaving.                                                   *)
(***************************************************************************)
\* a missing or undefined field (falsy)
Undefined == ""
\* room ids, user ids, user names and texts a message may carry
RoomIds == {"lobby", "dev"}
UserIds == {"u1"}
Usernames == {"alice"}
MessageTexts == {"hi"}

\* rooms.has(roomId); rooms[r] is Null when the map has no key r and
\* Some(members) when it has
roomsHas(roomsNow, roomId) == roomId \in RoomIds /\ roomsNow[roomId] # Null

\* the members of rooms.get(roomId), no socket when the key is absent
roomsGet(roomsNow, roomId) ==
    IF roomsHas(roomsNow, roomId) THEN roomsNow[roomId][1] ELSE {}

\* a WebSocketMessage sent by the server
Outgoing(type, roomId, text) == [type |-> type, roomId |-> roomId, message |-> text]

\* broadcastToRoom(roomId, message, exclude) in the manager state st
broadcastToRoom(st, roomId, msg, exclude) ==
    IF ~roomsHas(st.rooms, roomId) THEN st
    ELSE [st EXCEPT !.sent = @ \cup
            {[to |-> c, msg |-> msg] :
                c \in {c \in roomsGet(st.rooms, roomId) :
                          c # exclude /\ st.readyState[c] = "open"}}]

\* sendError(ws, message)
sendError(st, sock, text) ==
    IF st.readyState[sock] = "open"
    THEN [st EXCEPT !.sent = @ \cup
            {[to |-> sock, msg |-> Outgoing("error", Undefined, text)]}]
    ELSE st

leaveRoomKeepEmpty(st, sock, roomId) ==
    IF sock \notin st.clients THEN st
    ELSE LET left ==
                 IF ~roomsHas(st.rooms, roomId) THEN st
                 ELSE LET members == roomsGet(st.rooms, roomId) \ {sock}
                          st1 == [st EXCEPT !.rooms[roomId] = Some(members)]
                      IN  IF st.client[sock].userId # Undefined
                             /\ st.client[sock].username # Undefined
                          THEN broadcastToRoom(st1, roomId,
                                   Outgoing("user_left", Undefined, Undefined), 0)
                          ELSE st1
         IN  [left EXCEPT !.client[sock].currentRoom = Undefined]

\* leaveRoom(ws, roomId)
leaveRoom(st, sock, roomId) ==
    IF sock \notin st.clients THEN st
    ELSE LET left ==
                 IF ~roomsHas(st.rooms, roomId) THEN st
                 ELSE LET members == roomsGet(st.rooms, roomId) \ {sock}
                          st1 == [st EXCEPT !.rooms[roomId] =
                                     IF members = {} THEN Null ELSE Some(members)]
                      IN  IF st.client[sock].userId # Undefined
                             /\ st.client[sock].username # Undefined
                          THEN broadcastToRoom(st1, roomId,
                                   Outgoing("user_left", Undefined, Undefined), 0)
                          ELSE st1
         IN  [left EXCEPT !.client[sock].currentRoom = Undefined]

\* handleJoinRoom(ws, message)
handleJoinRoom(st, sock, m) ==
    IF sock \notin st.clients \/ m.roomId = Undefined
       \/ m.userId = Undefined \/ m.username = Undefined
    THEN sendError(st, sock, "Invalid join room data")
    ELSE LET st1 == IF st.client[sock].currentRoom # Undefined
                    THEN leaveRoom(st, sock, st.client[sock].currentRoom)
                    ELSE st
             st2 == [st1 EXCEPT !.client[sock] =
                        [userId |-> m.userId, username |-> m.username,
                         currentRoom |-> m.roomId]]
             st3 == IF ~roomsHas(st2.rooms, m.roomId)
                    THEN [st2 EXCEPT !.rooms[m.roomId] = Some({})]
                    ELSE st2
             st4 == [st3 EXCEPT !.rooms[m.roomId] = Some(@[1] \cup {sock})]
         IN  broadcastToRoom(st4, m.roomId,
                 Outgoing("user_joined", Undefined, Undefined), sock)

\* handleLeaveRoom(ws, message)
handleLeaveRoom(st, sock, m) ==
    IF sock \notin st.clients \/ m.roomId = Undefined THEN st
    ELSE leaveRoom(st, sock, m.roomId)

\* handleTyping(ws, message) and handleStopTyping(ws, message)
handleTyping(st, sock, type) ==
    IF sock \notin st.clients \/ st.client[sock].currentRoom = Undefined
       \/ st.client[sock].userId = Undefined
       \/ st.client[sock].username = Undefined
    THEN st
    ELSE broadcastToRoom(st, st.client[sock].currentRoom,
             Outgoing(type, st.client[sock].currentRoom, Undefined), sock)

\* handleDisconnection(ws)
handleDisconnection(st, sock) ==
    LET st1 == IF sock \in st.clients /\ st.client[sock].currentRoom # Undefined
               THEN leaveRoom(st, sock, st.client[sock].currentRoom)
               ELSE st
    IN  [st1 EXCEPT !.clients = @ \ {sock}]

\* the manager state a handler starts from: nothing sent yet
Manager ==
    [readyState |-> readyState, clients |-> clients, client |-> client,
     rooms |-> rooms, sent |-> {}]

\* the manager state a handler ends with
Becomes(st) ==
    \E end \in {st} :
        /\ clients' = end.clients
        /\ client' = end.client
        /\ rooms' = end.rooms
        /\ sent' = end.sent

InitServer ==
    /\ pc = "server" /\ call = <<"none">> /\ ret = Null
    /\ EngineIdle /\ NoClient /\ NoLocals
    /\ readyState = <<>> /\ clients = {} /\ client = <<>>
    /\ rooms = [r \in RoomIds |-> Null]
    /\ pending = {} /\ sent = {} /\ saved = Null

\* handleConnection(ws): the server accepts a socket
HandleConnection ==
    /\ Len(readyState) < MaxClients
    /\ readyState' = Append(readyState, "open")
    /\ client' = Append(client, [userId |-> Undefined, username |-> Undefined,
                                 currentRoom |-> Undefined])
    /\ clients' = clients \cup {Len(readyState) + 1}
    /\ sent' = {} /\ saved' = Null
    /\ UNCHANGED <<rooms, pending, engineVars, clientVars, locals>>

\* sockets on which a 'message' event can still be emitted
Receiving == {s \in 1..Len(readyState) : readyState[s] \in {"open", "closing"}}

\* the fields of the WebSocketMessage values a peer may send
Incoming ==
    [roomId : RoomIds \cup {Undefined}, userId : UserIds \cup {Undefined},
     username : Usernames \cup {Undefined}]

\* a 'message' event carrying a join_room message
JoinRoom ==
    /\ \E sock \in Receiving, m \in Incoming :
        Becomes(IF sock \in clients THEN handleJoinRoom(Manager, sock, m)
                ELSE Manager)
    /\ saved' = Null
    /\ UNCHANGED <<readyState, pending, engineVars, clientVars, locals>>

\* a 'message' event carrying a leave_room message
LeaveRoom ==
    /\ \E sock \in Receiving, roomId \in RoomIds \cup {Undefined} :
        Becomes(IF sock \in clients
                THEN handleLeaveRoom(Manager, sock, [roomId |-> roomId])
                ELSE Manager)
    /\ saved' = Null
    /\ UNCHANGED <<readyState, pending, engineVars, clientVars, locals>>

\* a 'message' event carrying a typing or stop_typing message
Typing ==
    /\ \E sock \in Receiving, type \in {"typing", "stop_typing"} :
        Becomes(IF sock \in clients THEN handleTyping(Manager, sock, type)
                ELSE Manager)
    /\ saved' = Null
    /\ UNCHANGED <<readyState, pending, engineVars, clientVars, locals>>

\* a 'message' event whose data does not parse or whose type is unknown
BadMessage ==
    /\ \E sock \in Receiving, text \in {"Invalid message format",
                                         "Unknown message type"} :
        Becomes(IF sock \in clients \/ text = "Invalid message format"
                THEN sendError(Manager, sock, text)
                ELSE Manager)
    /\ saved' = Null
    /\ UNCHANGED <<readyState, pending, engineVars, clientVars, locals>>

\* a 'message' event carrying a chat_message message: handleChatMessage up
\* to its await; the roomId handed to storage.createChatMessage is
\* client.currentRoom as it is now
ChatMessage ==
    /\ \E sock \in Receiving, text \in MessageTexts \cup {Undefined} :
        IF sock \notin clients
        THEN Becomes(Manager) /\ UNCHANGED pending
        ELSE IF client[sock].currentRoom = Undefined
                \/ client[sock].userId = Undefined
                \/ client[sock].username = Undefined
                \/ text = Undefined
        THEN Becomes(sendError(Manager, sock, "Invalid message data"))
             /\ UNCHANGED pending
        ELSE /\ Cardinality(pending) < MaxPending
             /\ pending' = pending \cup
                    {[ws |-> sock, roomId |-> client[sock].currentRoom]}
             /\ Becomes(Manager)
    /\ saved' = Null
    /\ UNCHANGED <<readyState, engineVars, clientVars, locals>>

\* storage.createChatMessage resolves: handleChatMessage resumes after its
\* await and broadcasts to client.currentRoom as it is now
SaveResolves ==
    /\ \E p \in pending :
        /\ pending' = pending \ {p}
        /\ saved' = Some([roomId |-> p.roomId])
        /\ Becomes(broadcastToRoom(Manager, client[p.ws].currentRoom,
               Outgoing("chat_message", client[p.ws].currentRoom, "hi"), 0))
    /\ UNCHANGED <<readyState, engineVars, clientVars, locals>>

\* storage.createChatMessage rejects: the catch block of handleChatMessage
SaveRejects ==
    /\ \E p \in pending :
        /\ pending' = pending \ {p}
        /\ Becomes(sendError(Manager, p.ws, "Failed to save message"))
    /\ saved' = Null
    /\ UNCHANGED <<readyState, engineVars, clientVars, locals>>

\* the 'error' event of a socket, emitted when the socket starts closing
SocketErrorEvent ==
    /\ \E sock \in 1..Len(readyState) :
        /\ readyState[sock] = "open"
        /\ readyState' = [readyState EXCEPT ![sock] = "closing"]
        /\ Becomes(handleDisconnection(
               [Manager EXCEPT !.readyState = readyState'], sock))
    /\ saved' = Null
    /\ UNCHANGED <<pending, engineVars, clientVars, locals>>

\* the 'close' event of a socket
SocketCloseEvent ==
    /\ \E sock \in 1..Len(readyState) :
        /\ readyState[sock] \in {"open", "closing"}
        /\ readyState' = [readyState EXCEPT ![sock] = "closed"]
        /\ Becomes(handleDisconnection(
               [Manager EXCEPT !.readyState = readyState'], sock))
    /\ saved' = Null
    /\ UNCHANGED <<pending, engineVars, clientVars, locals>>

NextServer ==
    \/ HandleConnection
    \/ JoinRoom
    \/ LeaveRoom
    \/ Typing
    \/ BadMessage
    \/ ChatMessage
    \/ SaveResolves
    \/ SaveRejects
    \/ SocketErrorEvent
    \/ SocketCloseEvent

SpecServer == InitServer /\ [][NextServer]_vars

\* SpecRooms: the manager under the connection, join_room, leave_room,
\* typing, malformed-message and disconnection events alone; no chat message
\* is sent, so no storage call is ever pending
NextRooms ==
    \/ HandleConnection
    \/ JoinRoom
    \/ LeaveRoom
    \/ Typing
    \/ BadMessage
    \/ SocketErrorEvent
    \/ SocketCloseEvent

SpecRooms == InitServer /\ [][NextRooms]_vars

(***************************************************************************)
(* Properties of the WebSocket server (checked under SpecServer).          *)
(***************************************************************************)
\* the room sets a socket is a member of
RoomsOf(sock) == {r \in RoomIds : sock \in roomsGet(rooms, r)}

\* C23: each connected socket is a member of at most one room set, and it
\* is a member of rooms[r] if and only if its client record has
\* currentRoom = r.
C23_RoomMembershipMatchesCurrentRoom ==
    \A sock \in clients :
        /\ Cardinality(RoomsOf(sock)) <= 1
        /\ \A r \in RoomIds : (sock \in roomsGet(rooms, r)) <=> (client[sock].currentRoom = r)

\* C24: when a chat message has been saved, it is broadcast to exactly the
\* room it was saved under: every copy sent carries that roomId and goes to
\* a member of that room, and every open member of that room gets a copy.
C24_BroadcastToPersistedRoom ==
    saved # Null =>
        LET chat == {m \in sent : m.msg.type = "chat_message"}
        IN  /\ \A m \in chat :
                /\ m.msg.roomId = saved[1].roomId
                /\ m.to \in roomsGet(rooms, saved[1].roomId)
            /\ \A c \in roomsGet(rooms, saved[1].roomId) :
                readyState[c] = "open" => \E m \in chat : m.to = c

\* C26: once handleDisconnection has handled the close or error event of a
\* socket, the socket is not in the clients map and is a member of no room.
C26_DisconnectedSocketRemoved ==
    \A sock \in 1..Len(readyState) :
        readyState[sock] \in {"closing", "closed"} =>
            /\ sock \notin clients
            /\ RoomsOf(sock) = {}

\* C29: every roomId present in rooms has at least one member socket.
C29_NoEmptyRoom ==
    \A r \in RoomIds : roomsHas(rooms, r) => roomsGet(rooms, r) # {}

C29_Witness ==
    /\ \E sock \in clients :
        /\ client[sock].userId # Undefined
        /\ client[sock].currentRoom = Undefined
        /\ RoomsOf(sock) = {}
    /\ \E r \in RoomIds : ~roomsHas(rooms, r)
    /\ \E r \in RoomIds : roomsHas(rooms, r)

(***************************************************************************)
(* SpecTerm: one call of gcd, modPow, modInverse or generateRSAKeyPair,    *)
(* stepped through one loop iteration at a time.  locals holds the local   *)
(* variables of the running function.  A running function keeps running    *)
(* (JavaScript runs a call to completion), hence the weak fairness.        *)
(***************************************************************************)
TermCalls ==
    {<<"gcd", a, b>> : a \in 0..MaxArg, b \in 0..MaxArg}
    \cup {<<"modPow", b, e, m>> : b \in 0..MaxArg, e \in 0..MaxArg, m \in 1..MaxArg}
    \cup {<<"modInverse", a, m>> : a \in 0..MaxArg, m \in 0..MaxArg}
    \cup {<<"generateRSAKeyPair", p, q>> : p \in KeyInputs, q \in KeyInputs}

\* the local variables of a call when it reaches its first loop test (for
\* generateRSAKeyPair: when it is entered)
EntryLocals(c) ==
    CASE c[1] = "gcd" -> [a |-> c[2], b |-> c[3]]
      [] c[1] = "modPow" -> [result |-> 1, base |-> Rem(c[2], c[4]), exp |-> c[3]]
      [] c[1] = "modInverse" -> [x |-> 1]
      [] c[1] = "generateRSAKeyPair" -> [line |-> "validate"]

InitTerm ==
    /\ pc = "running"
    /\ call \in TermCalls
    /\ locals = EntryLocals(call)
    /\ ret = Null
    /\ EngineIdle /\ NoClient /\ NoServer

\* return v
ReturnTerm(v) ==
    /\ pc' = "returned"
    /\ ret' = Some(v)
    /\ UNCHANGED locals

\* the loop of the running function goes round once more with locals l
Iterate(l) ==
    /\ locals' = l
    /\ UNCHANGED <<pc, ret>>

GcdStepSwap ==
    /\ pc = "running" /\ call[1] = "gcd"
    /\ IF locals.b # 0
       THEN Iterate([a |-> locals.b, b |-> locals.a])
       ELSE ReturnTerm(locals.a)
    /\ UNCHANGED <<call, argP, argQ, keyPair, message, ciphertext, plaintext,
                   steps, clientVars, serverVars>>

\* while (b !== 0) { const temp = b; b = a % b; a = temp; } return a
GcdStep ==
    /\ pc = "running" /\ call[1] = "gcd"
    /\ IF locals.b # 0
       THEN Iterate([a |-> locals.b, b |-> Rem(locals.a, locals.b)])
       ELSE ReturnTerm(locals.a)
    /\ UNCHANGED <<call, argP, argQ, keyPair, message, ciphertext, plaintext,
                   steps, clientVars, serverVars>>

\* while (exp > 0) { .. exp = Math.floor(exp / 2); .. } return result
ModPowStep ==
    /\ pc = "running" /\ call[1] = "modPow"
    /\ IF locals.exp > 0
       THEN Iterate([result |-> IF locals.exp % 2 = 1
                                THEN MulRem(locals.result, locals.base, call[4])
                                ELSE locals.result,
                     base |-> MulRem(locals.base, locals.base, call[4]),
                     exp |-> locals.exp \div 2])
       ELSE ReturnTerm(locals.result)
    /\ UNCHANGED <<call, argP, argQ, keyPair, message, ciphertext, plaintext,
                   steps, clientVars, serverVars>>

\* for (let x = 1; x < m; x++) if ((a * x) % m === 1) return x; return null
ModInverseStep ==
    /\ pc = "running" /\ call[1] = "modInverse"
    /\ IF locals.x < call[3]
       THEN IF Rem(call[2] * locals.x, call[3]) = 1
            THEN ReturnTerm(Some(locals.x))
            ELSE Iterate([x |-> locals.x + 1])
       ELSE ReturnTerm(Null)
    /\ UNCHANGED <<call, argP, argQ, keyPair, message, ciphertext, plaintext,
                   steps, clientVars, serverVars>>

\* generateRSAKeyPair: the validation, then one round of
\* while (gcd(e, phi) !== 1) e += 2 per step, then the rest of the function
GenerateKeysStep ==
    /\ pc = "running" /\ call[1] = "generateRSAKeyPair"
    /\ LET p == call[2]
           q == call[3]
       IN  IF locals.line = "validate"
           THEN IF ~isPrime(p) \/ ~isPrime(q)
                THEN ReturnTerm(Error("Both p and q must be prime numbers"))
                ELSE IF p = q
                THEN ReturnTerm(Error("p and q must be different prime numbers"))
                ELSE Iterate([line |-> "search", e |-> 3,
                              phi |-> (p - 1) * (q - 1)])
           ELSE IF gcd(locals.e, locals.phi) # 1
                THEN Iterate([locals EXCEPT !.e = @ + 2])
                ELSE LET d == modInverse(locals.e, locals.phi)
                     IN  IF d = Null \/ d = Some(0)
                         THEN ReturnTerm(Error("Could not generate valid private key"))
                         ELSE ReturnTerm(
                                [ok |-> TRUE,
                                 publicKey |-> [e |-> locals.e, n |-> p * q],
                                 privateKey |-> [d |-> d[1], n |-> p * q],
                                 p |-> p, q |-> q, phi |-> locals.phi])
    /\ UNCHANGED <<call, argP, argQ, keyPair, message, ciphertext, plaintext,
                   steps, clientVars, serverVars>>

NextTerm == GcdStep \/ ModPowStep \/ ModInverseStep \/ GenerateKeysStep

SpecTerm == InitTerm /\ [][NextTerm]_vars /\ WF_vars(NextTerm)

(***************************************************************************)
(* Termination of the engine (checked under SpecTerm).                     *)
(***************************************************************************)
\* C22: every call of gcd (a, b >= 0), modPow (exp >= 0, mod > 0),
\* modInverse and generateRSAKeyPair eventually returns, and modInverse
\* returns after examining at most m - 1 candidates.
C22_EngineTerminates ==
    /\ []((pc = "running" /\ call[1] = "modInverse") =>
            locals.x - 1 <= (IF call[3] > 1 THEN call[3] - 1 ELSE 0))
    /\ <>(pc = "returned")

C22_Witness ==
    /\ pc = "returned"
    /\ call = <<"generateRSAKeyPair", 11, 13>>
    /\ locals.line = "search" /\ locals.e = 7
    /\ ret[1].ok

====
